---- MODULE Spec2Model ----
(***************************************************************************)
(* The index thresholding scripts of the repository (flood, vegetation,    *)
(* soil, moisture) as one state machine over a small raster grid.          *)
(*                                                                         *)
(* An image is a record [ok, val]: ok is the set of cells that carry data  *)
(* (the image mask), val the cell values, 0 at every no-data cell.         *)
(* Index values are integers; a normalized raster keeps the numerators     *)
(* (index - min) in val and the common denominator (max - min) in den, so  *)
(* that every comparison of the scripts is decided exactly.                *)
(***************************************************************************)
EXTENDS Integers, FiniteSets, Sequences, TLC

\* ------------------------------------------------------------------ grid
\* Bounds of the model: the raster grid is W columns by H rows.
W == 5
H == 3
\* Largest snake position at which the drawn blob of target cells may start.
MaxStart == 3

Cells == 1 .. (W * H)
Row(c) == ((c - 1) \div W) + 1
Col(c) == ((c - 1) % W) + 1
CellAt(r, k) == (r - 1) * W + k

\* Position p of the boustrophedon walk over the grid (odd rows left to
\* right, even rows right to left): consecutive positions share an edge.
SnakeCell(p) ==
  LET r == ((p - 1) \div W) + 1
      k == ((p - 1) % W) + 1
  IN  IF r % 2 = 1 THEN CellAt(r, k) ELSE CellAt(r, W + 1 - k)

Abs(x) == IF x < 0 THEN -x ELSE x
Min2(a, b) == IF a <= b THEN a ELSE b

\* ------------------------------------------------------------------ images
MkImage(okset, f(_)) ==
  [ok |-> okset, val |-> [c \in Cells |-> IF c \in okset THEN f(c) ELSE 0]]

NoImage == [ok |-> {}, val |-> [c \in Cells |-> 0]]

\* A cell is true in a mask when it carries data and its value is non-zero.
IsTrue(img, c) == c \in img.ok /\ img.val[c] # 0
TrueCells(img) == {c \in img.ok : img.val[c] # 0}

\* ee.Image.clip(aoi): cells outside the geometry become no-data.
Clip(img, geom) == MkImage(img.ok \cap geom, LAMBDA c : img.val[c])

\* ee.Image.updateMask(mask): a cell keeps its data only where the mask
\* image carries data and is non-zero.
UpdateMask(img, mask) ==
  MkImage({c \in img.ok : IsTrue(mask, c)}, LAMBDA c : img.val[c])

\* ee.Image.where(test, value): the value replaces the input where test is
\* non-zero; where test is no-data the input is used, and a no-data input
\* cell stays no-data.
Where(img, test, value) ==
  MkImage(img.ok, LAMBDA c : IF IsTrue(test, c) THEN value ELSE img.val[c])

\* image.gte(n) / image.lt(n): 1 or 0 at every cell that carries data.
Gte(img, n) == MkImage(img.ok, LAMBDA c : IF img.val[c] >= n THEN 1 ELSE 0)
Lt(img, n) == MkImage(img.ok, LAMBDA c : IF img.val[c] < n THEN 1 ELSE 0)

\* image.eq(n): 1 or 0 at every cell that carries data.
Eq(img, n) == MkImage(img.ok, LAMBDA c : IF img.val[c] = n THEN 1 ELSE 0)

\* ------------------------------------------------------------------ scripts
Scripts == {"flood", "veg", "soil", "moisture"}

\* The indices of each script, in the order the script computes them.
IndicesOf(s) ==
  CASE s = "flood"    -> <<"RI", "NDFI", "DII">>
    [] s = "veg"      -> <<"NDVI", "GNDVI", "EVI", "SAVI">>
    [] s = "soil"     -> <<"SR", "DVI", "CMR">>
    [] s = "moisture" -> <<"SWI", "NDMI", "MNDWI">>

IndexSet(s) == {IndicesOf(s)[n] : n \in 1 .. Len(IndicesOf(s))}
AllIndices == UNION {IndexSet(s) : s \in Scripts}
Ordinal(s, i) == CHOOSE n \in 1 .. Len(IndicesOf(s)) : IndicesOf(s)[n] = i

\* The threshold formula of each index: 1 for mean + k*std (.add),
\* -1 for mean - k*std (.subtract).
ThSign(i) ==
  CASE i \in {"RI", "DII"}                       -> 1
    [] i = "NDFI"                                -> -1
    [] i \in {"NDVI", "GNDVI", "EVI", "SAVI"}    -> 1
    [] i \in {"SR", "CMR"}                       -> -1
    [] i = "DVI"                                 -> 1
    [] i = "SWI"                                 -> -1
    [] i \in {"NDMI", "MNDWI"}                   -> 1

\* Mutant of KNum: the numerator of every coefficient is 1, so DII is
\* thresholded with k = 1/5.
KNum_AllOne(i) == 1

\* The coefficient k of each index as the fraction KNum / KDen.
KNum(i) ==
  CASE i = "RI"                                  -> 1
    [] i = "NDFI"                                -> 1
    [] i = "DII"                                 -> 4
    [] i \in {"NDVI", "GNDVI", "EVI", "SAVI"}    -> 1
    [] i \in {"SR", "DVI", "CMR"}                -> 1
    [] i \in {"SWI", "NDMI", "MNDWI"}            -> 1

KDen(i) ==
  CASE i = "RI"                                  -> 4
    [] i = "NDFI"                                -> 1
    [] i = "DII"                                 -> 5
    [] i \in {"NDVI", "GNDVI", "EVI", "SAVI"}    -> 4
    [] i \in {"SR", "DVI", "CMR"}                -> 10
    [] i \in {"SWI", "NDMI", "MNDWI"}            -> 10

\* Mutant of CmpOp: SWI is compared with gt as NDMI and MNDWI are.
CmpOp_SwiGt(i) ==
  CASE i \in {"RI", "DII"}                       -> "gt"
    [] i = "NDFI"                                -> "lt"
    [] i \in {"NDVI", "GNDVI", "EVI", "SAVI"}    -> "gt"
    [] i \in {"SR", "DVI", "CMR"}                -> "lt"
    [] i \in {"SWI", "NDMI", "MNDWI"}            -> "gt"

\* The comparison each script applies to the normalized raster.
CmpOp(i) ==
  CASE i \in {"RI", "DII"}                       -> "gt"
    [] i = "NDFI"                                -> "lt"
    [] i \in {"NDVI", "GNDVI", "EVI", "SAVI"}    -> "gt"
    [] i \in {"SR", "DVI", "CMR"}                -> "lt"
    [] i = "SWI"                                 -> "lt"
    [] i \in {"NDMI", "MNDWI"}                   -> "gt"

\* Mutant of MinSize: the flood script filters with 10 as the others do.
MinSize_AllTen(i) == 10

\* The argument of connections.gte(...) of each index.
MinSize(i) == IF i \in {"RI", "NDFI", "DII"} THEN 5 ELSE 10

\* Which scripts apply .where(swater_mask, 0) and .updateMask(slope.lt(5)).
UsesWater(s) == s \in {"flood", "soil", "moisture"}
UsesSlope(s) == s = "flood"

\* swater.gte(10) and slope.lt(5).
SeasonMin == 10
SlopeMax == 5

\* connectedPixelCount() is called with no argument: the platform defaults
\* are maxSize 100 and eightConnected true.
MaxSize == 100

\* Mutant of EightConnected: the flood script counts edge neighbours only.
EightConnected_FloodFour(i) == i \notin {"RI", "NDFI", "DII"}

EightConnected(i) == TRUE

\* Mutant of AreaBestEffort: the area sum copies the setting of reduceToVectors.
AreaBestEffort_AsVectors(s) == s # "flood"

\* bestEffort of the area reduceRegion and of reduceToVectors, per script.
AreaBestEffort(s) == FALSE
VectorBestEffort(s) == s # "flood"

\* ee.Image.pixelArea() at scale 10, and the divisor of .divide(10000).
Scale == 10
PixelArea == Scale * Scale
HaDivisor == 10000

\* ------------------------------------------------------------------ reducers
\* reduceRegion over a geometry reads the cells of the geometry that carry
\* data.
RegionCells(img, geom) == img.ok \cap geom

\* The sum of f[lo] .. f[hi], by halving.
RECURSIVE SumRange(_, _, _)
SumRange(f, lo, hi) ==
  IF lo > hi THEN 0
  ELSE IF lo = hi THEN f[lo]
  ELSE SumRange(f, lo, (lo + hi) \div 2) + SumRange(f, ((lo + hi) \div 2) + 1, hi)

SumUpTo(f, n) == SumRange(f, 1, n)

\* ee.Reducer.sum() of the values of img over the geometry.
ReduceSum(img, geom) ==
  SumUpTo([c \in DOMAIN img.val |->
             IF c \in RegionCells(img, geom) THEN img.val[c] ELSE 0],
          Cardinality(DOMAIN img.val))

\* ee.Reducer.min() / ee.Reducer.max(); the geometry holds a data cell in
\* every drawn scene.
ReduceMin(img, geom) ==
  CHOOSE m \in {img.val[c] : c \in RegionCells(img, geom)} :
    \A c \in RegionCells(img, geom) : m <= img.val[c]

ReduceMax(img, geom) ==
  CHOOSE m \in {img.val[c] : c \in RegionCells(img, geom)} :
    \A c \in RegionCells(img, geom) : m >= img.val[c]

\* ------------------------------------------------------------------ normalize
\* image.divide(number): a quotient with numerator val and denominator den;
\* the platform returns 0 for a division by 0 and raises no error.
DivideByRange(img, range) ==
  IF range = 0
    THEN [ok |-> img.ok, val |-> [c \in Cells |-> 0], den |-> 1]
    ELSE [ok |-> img.ok, val |-> img.val, den |-> range]

\* Mutant of Normalize: the minimum is not subtracted before the division.
Normalize_NoSubtract(img, geom) ==
  DivideByRange(img, ReduceMax(img, geom) - ReduceMin(img, geom))

\* sr_range = max - min; sr_subtctMin = median.subtract(min);
\* SRnorm = sr_subtctMin.divide(sr_range).
Normalize(img, geom) ==
  LET lo == ReduceMin(img, geom)
      hi == ReduceMax(img, geom)
      range == hi - lo
      subtctMin == MkImage(img.ok, LAMBDA c : img.val[c] - lo)
  IN  DivideByRange(subtctMin, range)

NoNorm == [ok |-> {}, val |-> [c \in Cells |-> 0], den |-> 1]

\* ------------------------------------------------------------------ threshold
\* ee.Reducer.mean() and ee.Reducer.stdDev() of a normalized raster over the
\* geometry are kept as the count n, the sum and the sum of squares of the
\* numerators: mean = sum / (n*den), std^2 = (n*sumsq - sum^2) / (n*den)^2.
Moments(norm, geom) ==
  LET rc == RegionCells(norm, geom)
      f1 == [c \in Cells |-> IF c \in rc THEN norm.val[c] ELSE 0]
      f2 == [c \in Cells |-> IF c \in rc THEN norm.val[c] * norm.val[c] ELSE 0]
  IN  [n |-> Cardinality(rc), sum |-> SumUpTo(f1, W * H), sumsq |-> SumUpTo(f2, W * H)]

NoMoments == [n |-> 0, sum |-> 0, sumsq |-> 0]

\* The sign (-1, 0, 1) of l - s * sqrt(r2), for s in {1, -1} and r2 >= 0.
SignSqrtCmp(l, s, r2) ==
  IF s = 1
    THEN IF l <= 0
           THEN (IF l = 0 /\ r2 = 0 THEN 0 ELSE -1)
           ELSE (IF l * l > r2 THEN 1 ELSE IF l * l = r2 THEN 0 ELSE -1)
    ELSE IF l >= 0
           THEN (IF l = 0 /\ r2 = 0 THEN 0 ELSE 1)
           ELSE (IF l * l > r2 THEN -1 ELSE IF l * l = r2 THEN 0 ELSE 1)

\* The sign of  x - (mean + s*k*std)  for the cell value x = num/den and
\* k = kn/kd: with d = n*num - sum and v = n*sumsq - sum^2 it is the sign
\* of  kd*d - s*kn*sqrt(v).
CmpToThreshold(num, mo, s, kn, kd) ==
  SignSqrtCmp(kd * (mo.n * num - mo.sum), s,
              kn * kn * (mo.n * mo.sumsq - mo.sum * mo.sum))

\* Mutant of ApplyThreshold: the comparison is evaluated at every cell, a
\* no-data cell counting as the value 0.
ApplyThreshold_IgnoreMask(norm, mo, s, kn, kd, op) ==
  MkImage(Cells,
          LAMBDA c : IF op = "gt"
                       THEN (IF CmpToThreshold(norm.val[c], mo, s, kn, kd) = 1 THEN 1 ELSE 0)
                       ELSE (IF CmpToThreshold(norm.val[c], mo, s, kn, kd) = -1 THEN 1 ELSE 0))

\* norm.gt(th) / norm.lt(th) with th = mean + s*k*std.
ApplyThreshold(norm, mo, s, kn, kd, op) ==
  MkImage(norm.ok,
          LAMBDA c : IF op = "gt"
                       THEN (IF CmpToThreshold(norm.val[c], mo, s, kn, kd) = 1 THEN 1 ELSE 0)
                       ELSE (IF CmpToThreshold(norm.val[c], mo, s, kn, kd) = -1 THEN 1 ELSE 0))

\* Mutant of Threshold: the comparison depends on the position of the
\* statement in its script.
Threshold_ByPosition(i, norm, geom) ==
  ApplyThreshold(norm, Moments(norm, geom), ThSign(i), KNum(i), KDen(i),
                 IF \E s \in Scripts : i = IndicesOf(s)[1] THEN CmpOp(i) ELSE "lt")

\* sr_mean, sr_std, sr_th, sr_filtered of the index i.
Threshold(i, norm, geom) ==
  ApplyThreshold(norm, Moments(norm, geom), ThSign(i), KNum(i), KDen(i), CmpOp(i))

\* ------------------------------------------------------------------ refine
\* Mutant of WaterMask: only more than ten months of water count.
WaterMask_Gt(sw) == UpdateMask(Gte(sw, SeasonMin + 1), Gte(sw, SeasonMin + 1))

\* swater_mask = swater.gte(10).updateMask(swater.gte(10)).
WaterMask(sw) == UpdateMask(Gte(sw, SeasonMin), Gte(sw, SeasonMin))

\* sr_mask = sr_filtered.where(swater_mask, 0); the vegetation script has
\* no such step.
Exclude(s, filt, sw) == IF UsesWater(s) THEN Where(filt, WaterMask(sw), 0) ELSE filt

\* sr = sr_mask.updateMask(sr_mask).
SelfMask(img) == UpdateMask(img, img)

Adjacent(a, b, eight) ==
  /\ a # b
  /\ Abs(Row(a) - Row(b)) <= 1
  /\ Abs(Col(a) - Col(b)) <= 1
  /\ (eight \/ Row(a) = Row(b) \/ Col(a) = Col(b))

\* S grown through the cells of pool; edge holds the cells added last.
RECURSIVE Grow(_, _, _, _)
Grow(S, edge, pool, eight) ==
  LET next == {d \in pool \ S : \E a \in edge : Adjacent(a, d, eight)}
  IN  IF next = {} THEN S ELSE Grow(S \cup next, next, pool, eight)

\* The cells connected to c through data cells of the same value.
ComponentOf(img, c, eight) ==
  Grow({c}, {c}, {d \in img.ok : img.val[d] = img.val[c]}, eight)

\* The components of the data cells todo of img.
RECURSIVE Components(_, _, _)
Components(img, todo, eight) ==
  IF todo = {} THEN {}
  ELSE LET part == ComponentOf(img, CHOOSE c \in todo : TRUE, eight)
       IN  {part} \cup Components(img, todo \ part, eight)

\* image.connectedPixelCount(): the size of the cell's component, itself
\* included, counted up to maxSize.
ConnectedPixelCount(img, eight) ==
  LET parts == Components(img, img.ok, eight)
  IN  MkImage(img.ok,
              LAMBDA c : Min2(Cardinality(CHOOSE p \in parts : c \in p), MaxSize))

\* Mutant of SizeFilter: a component must be larger than the minimum size.
SizeFilter_Gt(i, img, conn) == UpdateMask(img, Gte(conn, MinSize(i) + 1))

\* sr = sr.updateMask(srconnections.gte(10)).
SizeFilter(i, img, conn) == UpdateMask(img, Gte(conn, MinSize(i)))

\* Mutant of SlopeMask: a slope of exactly five percent is kept.
SlopeMask_Lte(img, slp) == UpdateMask(img, Lt(slp, SlopeMax + 1))

\* ri_flooded = ri_flooded.updateMask(slope.lt(5)).
SlopeMask(img, slp) == UpdateMask(img, Lt(slp, SlopeMax))

\* ------------------------------------------------------------------ outputs
\* Mutant of ReduceToVectors: the image is not cut to the geometry.
ReduceToVectors_NoGeometry(img, geom) == Components(img, img.ok, TRUE)

\* reduceToVectors over the geometry: one polygon per connected group of
\* data cells of equal value, as the set of cells it covers.
ReduceToVectors(img, geom) ==
  LET inside == Clip(img, geom)
  IN  Components(inside, inside.ok, TRUE)

\* SRArea = sr.multiply(ee.Image.pixelArea()).
MultiplyPixelArea(img) ==
  [ok |-> img.ok, val |-> [c \in DOMAIN img.val |-> img.val[c] * PixelArea]]

\* Mutant of AreaStats: the sum runs over the cells of the geometry that are
\* not true in the mask.
AreaStats_Complement(img, geom) == PixelArea * Cardinality(geom \ TrueCells(img))

\* Mutant of AreaStats: the sum is not restricted to the geometry.
AreaStats_NoGeometry(img, geom) == ReduceSum(MultiplyPixelArea(img), DOMAIN img.val)

\* SRStats = SRArea.reduceRegion(sum, aoi, scale 10).
AreaStats(img, geom) == ReduceSum(MultiplyPixelArea(img), geom)

\* ee.Number.divide(10000).round(): the integers nearest to m2 / 10000; a
\* quotient halfway between two integers may round to either.
RoundedHa(m2) ==
  {h \in (m2 \div HaDivisor) .. ((m2 \div HaDivisor) + 1) :
     2 * Abs(h * HaDivisor - m2) <= HaDivisor}

\* ee.Number.divide(10000).round() of a sum of m2 >= 0 square metres: the
\* nearest integer; the source does not say how the platform settles a
\* quotient halfway between two integers, so the rule is one of RoundingRules,
\* the same for every call of a run.
RoundingRules == {"halfUp", "halfEven"}
Round(m2, rule) ==
  LET q == m2 \div HaDivisor
      r == m2 % HaDivisor
  IN  IF 2 * r < HaDivisor THEN q
      ELSE IF 2 * r > HaDivisor THEN q + 1
      ELSE IF rule = "halfUp" THEN q + 1
      ELSE IF q % 2 = 0 THEN q ELSE q + 1

\* ------------------------------------------------------------------ scenes
\* The rasters the platform hands to a script are drawn from a family of
\* scenes: a blob of len cells along the snake walk from position a, an
\* optional odd cell (1: a cell of intermediate value next to the blob,
\* 2: a no-data cell at the head of the blob, 3: a checkerboard instead of
\* the blob), a surface-water pattern and a terrain pattern; the
\* intermediate cell and the checkerboard come without surface water, the
\* no-data cell under the graded water pattern.  The n-th index of a script sees the scene mirrored, and
\* every second index sees it with the values inverted.
MirrorH(c) == CellAt(Row(c), W + 1 - Col(c))
MirrorV(c) == CellAt(H + 1 - Row(c), Col(c))
Transform(n, c) ==
  CASE n = 1 -> c
    [] n = 2 -> MirrorH(c)
    [] n = 3 -> MirrorV(c)
    [] OTHER -> MirrorH(MirrorV(c))

Blob(a, len) == {SnakeCell(p) : p \in a .. (a + len - 1)}

\* The cells of one colour of the checkerboard: any two of them touch by a
\* corner or not at all.  Checker(len) is the first len of them.
CheckerCells == {c \in Cells : (Row(c) + Col(c)) % 2 = 0}
Checker(len) == {c \in CheckerCells : Cardinality({d \in CheckerCells : d <= c}) <= len}

\* The target cells of a scene: the snake blob or, for odd = 3, the first
\* len checkerboard cells (a = 1) or every cell but those (a = 2).
Target(a, len, odd) ==
  IF odd # 3 THEN Blob(a, len)
  ELSE IF a = 1 THEN Checker(len) ELSE Cells \ Checker(len)

SceneRaster(n, a, len, odd) ==
  LET blob   == {Transform(n, c) : c \in Target(a, len, odd)}
      midc   == Transform(n, SnakeCell(Min2(a + len, W * H)))
      gap    == Transform(n, SnakeCell(a))
      inBlob(c) == IF n % 2 = 0 THEN c \notin blob ELSE c \in blob
  IN  MkImage(IF odd = 2 THEN Cells \ {gap} ELSE Cells,
              LAMBDA c : IF odd = 1 /\ c = midc THEN n + 1
                         ELSE IF inBlob(c) THEN n ELSE n + 2)

\* JRC seasonality (months of water per year); no data where water was
\* never seen.
SceneWater(wat) ==
  CASE wat = 0 -> NoImage
    [] wat = 1 -> MkImage({SnakeCell(p) : p \in 1 .. 4},
                          LAMBDA c : IF c = SnakeCell(1) THEN 12
                                     ELSE IF c = SnakeCell(2) THEN 11
                                     ELSE IF c = SnakeCell(3) THEN 10 ELSE 9)
    [] OTHER   -> MkImage({c \in Cells : Col(c) = 3}, LAMBDA c : 10)

\* Terrain slope in percent.
SceneSlope(steep) ==
  IF steep = 0
    THEN MkImage(Cells, LAMBDA c : 0)
    ELSE MkImage(Cells \ {CellAt(H, W)},
                 LAMBDA c : IF Col(c) = 1 THEN 6 ELSE IF Col(c) = 2 THEN 5 ELSE 4)

\* The area of interest: the whole grid, or the grid without its last column.
SceneAoi(partial) == IF partial THEN {c \in Cells : Col(c) < W} ELSE Cells

\* medianSR = withIndices.select('SR').median().clip(aoi); the flood script
\* smooths the index with focalMedian, which leaves data outside the clip.
IndexRaster(s, n, geom, a, len, odd) ==
  IF s = "flood" THEN SceneRaster(n, a, len, odd)
                 ELSE Clip(SceneRaster(n, a, len, odd), geom)

\* collection.size(): the number of images left by the date, bounds and
\* cloud filters.  The composite of an empty collection has no band: no
\* cell of it carries data.
SomeImages == 2
Composite(count, img) == IF count = 0 THEN NoImage ELSE img

\* ------------------------------------------------------------------ program
\* The statements of a script in source order, as <<stage, index>>.
Stage(st, s) == [n \in 1 .. Len(IndicesOf(s)) |-> <<st, IndicesOf(s)[n]>>]

FloodIndexSteps(i) ==
  << <<"normalize", i>>, <<"threshold", i>>, <<"exclude", i>>, <<"selfmask", i>>,
     <<"connections", i>>, <<"sizefilter", i>>, <<"slope", i>> >>

ConnSteps(i) == << <<"connections", i>>, <<"sizefilter", i>> >>

OutputSteps(s) == Stage("vectorize", s) \o Stage("areastats", s) \o Stage("hectares", s)

\* Mutant of FloodProgram: the three connectedPixelCount statements run
\* before the first size filter, so every size filter reads the one
\* variable connections as the last pipeline bound it.
FloodProgram_SharedConnections ==
  << <<"normalize", "RI">>, <<"threshold", "RI">>, <<"exclude", "RI">>,
     <<"selfmask", "RI">>, <<"connections", "RI">>,
     <<"normalize", "NDFI">>, <<"threshold", "NDFI">>, <<"exclude", "NDFI">>,
     <<"selfmask", "NDFI">>, <<"connections", "NDFI">>,
     <<"normalize", "DII">>, <<"threshold", "DII">>, <<"exclude", "DII">>,
     <<"selfmask", "DII">>, <<"connections", "DII">>,
     <<"sizefilter", "RI">>, <<"slope", "RI">>,
     <<"sizefilter", "NDFI">>, <<"slope", "NDFI">>,
     <<"sizefilter", "DII">>, <<"slope", "DII">> >>
    \o OutputSteps("flood")

\* Mutant of FloodProgram: the slope masks are applied after the polygons
\* are made and before the areas are summed.
FloodProgram_SlopeAfterVectorize ==
  LET unsloped(i) == << <<"normalize", i>>, <<"threshold", i>>, <<"exclude", i>>,
                        <<"selfmask", i>> >> \o ConnSteps(i)
  IN  unsloped("RI") \o unsloped("NDFI") \o unsloped("DII")
    \o Stage("vectorize", "flood") \o Stage("slope", "flood")
    \o Stage("areastats", "flood") \o Stage("hectares", "flood")

FloodProgram ==
  FloodIndexSteps("RI") \o FloodIndexSteps("NDFI") \o FloodIndexSteps("DII")
    \o OutputSteps("flood")

VegProgram ==
  Stage("normalize", "veg") \o Stage("threshold", "veg") \o Stage("selfmask", "veg")
    \o ConnSteps("NDVI") \o ConnSteps("GNDVI") \o ConnSteps("EVI")
    \o ConnSteps("SAVI") \o OutputSteps("veg")

SoilProgram ==
  Stage("normalize", "soil") \o Stage("threshold", "soil") \o Stage("exclude", "soil")
    \o Stage("selfmask", "soil")
    \o ConnSteps("SR") \o ConnSteps("DVI") \o ConnSteps("CMR") \o OutputSteps("soil")

MoistureProgram ==
  Stage("normalize", "moisture") \o Stage("threshold", "moisture")
    \o Stage("exclude", "moisture") \o Stage("selfmask", "moisture")
    \o ConnSteps("SWI") \o ConnSteps("NDMI") \o ConnSteps("MNDWI")
    \o OutputSteps("moisture")

\* The head of the flood script: the smoothed composites, then each index
\* and its smoothing.
SarIndexSteps(i) == << <<"rawindex", i>>, <<"smoothindex", i>> >>

SarProgram ==
  << <<"smoothbefore", "VH">>, <<"smoothafter", "VH">> >>
    \o SarIndexSteps("RI") \o SarIndexSteps("NDFI") \o SarIndexSteps("DII")

\* The classification script: three classifiers, their accuracies, the
\* clip, and the forEach loop over the class labels.
Classifiers == <<"CART", "RF", "SVM">>
ClassifierSet == {Classifiers[n] : n \in 1 .. Len(Classifiers)}
classLabels == <<0, 1, 2, 3>>
classNames == <<"dense vegetation", "water", "developed", "grass">>
LabelSet == {classLabels[n] : n \in 1 .. Len(classLabels)}

ClassSteps(n) ==
  << <<"classmask", n>>, <<"classvectors", n>>, <<"classname", n>>, <<"classexport", n>> >>

ClassifyProgram ==
  [n \in 1 .. Len(Classifiers) |-> <<"classify", Classifiers[n]>>]
    \o [n \in 1 .. Len(Classifiers) |-> <<"accuracy", Classifiers[n]>>]
    \o << <<"clipclass", "RF">> >>
    \o ClassSteps(1) \o ClassSteps(2) \o ClassSteps(3) \o ClassSteps(4)

\* The classifiers of the classification script: those trained on every
\* sampled feature, whose images are displayed, and those trained on the
\* training set, whose confusion matrices are printed.
DisplayClassifiers == <<"Cartclassifier", "RFclassifier", "SVMclassifier">>
AccuracyClassifiers == <<"CAclassifier", "RFAclassifier", "SVMAclassifier">>

AccuracySteps(k) == << <<"train", k>>, <<"errormatrix", k>> >>

TrainProgram ==
  [n \in 1 .. Len(DisplayClassifiers) |-> <<"train", DisplayClassifiers[n]>>]
    \o << <<"split", "classifierTraining">> >>
    \o AccuracySteps("CAclassifier") \o AccuracySteps("RFAclassifier")
    \o AccuracySteps("SVMAclassifier")
    \o << <<"clipsource", "RFclassifier">> >>

Program(s) ==
  CASE s = "flood"    -> FloodProgram
    [] s = "veg"      -> VegProgram
    [] s = "soil"     -> SoilProgram
    [] s = "moisture" -> MoistureProgram
    [] s = "classify" -> ClassifyProgram
    [] s = "sar"      -> SarProgram
    [] s = "train"    -> TrainProgram

\* Mutant of Inputs: the area is summed over the polygons.
Inputs_AreaFromPolygons(st, s) ==
  CASE st = "normalize"   -> {"index", "aoi"}
    [] st = "threshold"   -> {"norm", "aoi"}
    [] st = "exclude"     -> {"filtered", "swater"}
    [] st = "selfmask"    -> IF UsesWater(s) THEN {"masked"} ELSE {"filtered"}
    [] st = "connections" -> {"final"}
    [] st = "sizefilter"  -> {"final", "connections"}
    [] st = "slope"       -> {"final", "slope"}
    [] st = "vectorize"   -> {"final", "aoi"}
    [] st = "areastats"   -> {"polygons", "aoi"}
    [] st = "hectares"    -> {"stats"}

\* The values each statement reads, by the name of the variable of this
\* model that holds them.
Inputs(st, s) ==
  CASE st = "normalize"   -> {"index", "aoi"}
    [] st = "threshold"   -> {"norm", "aoi"}
    [] st = "exclude"     -> {"filtered", "swater"}
    [] st = "selfmask"    -> IF UsesWater(s) THEN {"masked"} ELSE {"filtered"}
    [] st = "connections" -> {"final"}
    [] st = "sizefilter"  -> {"final", "connections"}
    [] st = "slope"       -> {"final", "slope"}
    [] st = "vectorize"   -> {"final", "aoi"}
    [] st = "areastats"   -> {"final", "aoi"}
    [] st = "hectares"    -> {"stats"}

\* The variable that holds the connectedPixelCount image of index i: the
\* flood script rebinds the one variable connections, the others keep one
\* variable per index.
ConnSlot(s, i) == IF s = "flood" THEN "connections" ELSE i
ConnSlots(s) == {ConnSlot(s, i) : i \in IndexSet(s)}

\* ------------------------------------------------------------------ state
VARIABLES
  script,       \* the script that runs
  aoi,          \* the cells of the area of interest
  swater,       \* JRC seasonality image
  slope,        \* terrain slope image
  index,        \* index |-> raster before normalization (medianSR, ri_filtered)
  norm,         \* index |-> normalized raster (SRnorm, ri_norm)
  filtered,     \* index |-> thresholded mask (sr_filtered)
  masked,       \* index |-> mask after the water exclusion (sr_mask)
  final,        \* index |-> refined mask (sr, ri_flooded, denseVegNDVIclean)
  connections,  \* slot |-> connectedPixelCount image
  polygons,     \* index |-> polygons of reduceToVectors
  stats,        \* index |-> summed area in m2 (SRStats), -1 before it is computed
  areaHa,       \* index |-> area in hectares (SRAreaHa), -1 before it is computed
  calls,        \* the reduceRegion / reduceToVectors calls made, with bestEffort
  img_count,    \* collection.size()
  rounding,     \* how the platform's round() settles a value halfway between two integers
  errors,       \* the indices whose values the platform could not evaluate
  reads,        \* index |-> the <<statement, value read>> pairs so far
  classified,   \* classifier |-> Cartclassified, RFclassified, SVMclassified
  accuracy,     \* classifier |-> correct testing samples (confusionMatrix.accuracy())
  ClassAoi,     \* the classified image clipped to the area of interest
  classMaskedImage,  \* position in classLabels |-> masked image of the class
  classPolygons,     \* position in classLabels |-> polygons of the class
  exportLog,    \* the reduceToVectors and Export.table.toDrive calls of the loop
  mean_before,  \* composite of the images before the flood
  min_after,    \* composite of the images after the flood
  before_filtered,  \* mean_before.focalMedian(...)
  after_filtered,   \* min_after.focalMedian(...)
  raw,          \* index |-> ri, ndfi, dii before their smoothing
  classifierTraining,  \* the sampled features
  random,       \* sample |-> its randomColumn value, in tenths
  trainingSet,  \* the samples with random < 0.7
  testingSet,   \* the samples with random >= 0.7
  trainedOn,    \* classifier |-> the features it was trained with
  testedOn,     \* classifier |-> the features its confusion matrix was made from
  clipSource,   \* the classifiers whose classified image is clipped for the export
  pc            \* the next statement of Program(script)

\* The variables of the head of the flood script.
sarVars == <<mean_before, min_after, before_filtered, after_filtered, raw>>

\* The samples and classifiers of the classification script.
trainVars == <<classifierTraining, random, trainingSet, testingSet, trainedOn, testedOn,
               clipSource>>

\* The variables of the classification script.
classVars == <<classified, accuracy, ClassAoi, classMaskedImage, classPolygons, exportLog>>

vars == <<script, aoi, swater, slope, index, norm, filtered, masked, final,
          connections, polygons, stats, areaHa, calls, img_count, rounding, errors, reads,
          classVars, sarVars, trainVars, pc>>

\* stats and areaHa before they are computed, and when the platform cannot
\* evaluate them.
NoValue == -1

\* The classification variables before the classification script runs.
NoClassification ==
  /\ classified = [k \in ClassifierSet |-> NoImage]
  /\ accuracy = [k \in ClassifierSet |-> NoValue]
  /\ ClassAoi = NoImage
  /\ classMaskedImage = [n \in 1 .. Len(classLabels) |-> NoImage]
  /\ classPolygons = [n \in 1 .. Len(classLabels) |-> {}]
  /\ exportLog = <<>>

\* The samples and classifiers before any is made.
NoTraining ==
  /\ classifierTraining = {}
  /\ random = [x \in {} |-> 0]
  /\ trainingSet = {}
  /\ testingSet = {}
  /\ trainedOn = [k \in {} |-> {}]
  /\ testedOn = [k \in {} |-> {}]
  /\ clipSource = {}

\* The composites before the head of the flood script runs.
NoSar ==
  /\ mean_before = NoImage
  /\ min_after = NoImage
  /\ before_filtered = NoImage
  /\ after_filtered = NoImage
  /\ raw = [i \in {} |-> NoImage]

Init ==
  \E s \in Scripts, partial \in BOOLEAN, a \in 1 .. MaxStart, odd \in 0 .. 3,
     wat \in 0 .. 2, steep \in 0 .. 1, count \in {0, SomeImages} :
    \E len \in 0 .. (W * H - a + 1) :
      /\ (steep = 1 => s = "flood")
      /\ (odd = 1 => wat = 0)
      /\ (odd = 2 => wat = 1)
      /\ (odd = 3 => (wat = 0 /\ a <= 2 /\ len <= Cardinality(CheckerCells)))
      /\ (count = 0 => (a = 1 /\ len = 0 /\ odd = 0))
      /\ script = s
      /\ img_count = count
      /\ rounding = "halfUp"
      /\ errors = {}
      /\ reads = [i \in IndexSet(s) |-> {}]
      /\ NoClassification
      /\ NoTraining
      /\ NoSar
      /\ aoi = SceneAoi(partial)
      /\ swater = SceneWater(wat)
      /\ slope = SceneSlope(steep)
      /\ index = [i \in IndexSet(s) |->
                    Composite(count,
                              IndexRaster(s, Ordinal(s, i), SceneAoi(partial), a, len, odd))]
      /\ norm = [i \in IndexSet(s) |-> NoNorm]
      /\ filtered = [i \in IndexSet(s) |-> NoImage]
      /\ masked = [i \in IndexSet(s) |-> NoImage]
      /\ final = [i \in IndexSet(s) |-> NoImage]
      /\ connections = [k \in ConnSlots(s) |-> NoImage]
      /\ polygons = [i \in IndexSet(s) |-> {}]
      /\ stats = [i \in IndexSet(s) |-> NoValue]
      /\ areaHa = [i \in IndexSet(s) |-> NoValue]
      /\ calls = {}
      /\ pc = 1

Running == pc <= Len(Program(script))
Done == ~Running

\* The statement the script is at, and the index it works on.
AtStage(st) == Running /\ Program(script)[pc][1] = st
Cur == Program(script)[pc][2]

\* Every statement moves to the next one and leaves its reads in the log.
Advance(st) ==
  /\ pc' = pc + 1
  /\ reads' = [reads EXCEPT ![Cur] = @ \cup {<<st, x>> : x \in Inputs(st, script)}]
  /\ UNCHANGED <<script, aoi, swater, slope, index, img_count, rounding, classVars, sarVars,
               trainVars>>

\* The scripts test neither the collection size nor the statistics: when
\* no cell of the region carries data, reduceRegion yields no minimum and
\* maximum, and the platform reports an evaluation error for every value
\* computed from them when that value is requested.
Failed(i) == \E e \in errors : e.index = i

NormalizeStep ==
  /\ AtStage("normalize")
  /\ IF RegionCells(index[Cur], aoi) = {}
       THEN /\ errors' = errors \cup {[index |-> Cur, name |-> "PlatformEvaluationError"]}
            /\ norm' = norm
       ELSE /\ norm' = [norm EXCEPT ![Cur] = Normalize(index[Cur], aoi)]
            /\ errors' = errors
  /\ Advance("normalize")
  /\ UNCHANGED <<filtered, masked, final,
                 connections, polygons, stats, areaHa, calls>>

ThresholdStep ==
  /\ AtStage("threshold")
  /\ filtered' = [filtered EXCEPT ![Cur] = Threshold(Cur, norm[Cur], aoi)]
  /\ Advance("threshold")
  /\ UNCHANGED <<norm, masked, final,
                 connections, polygons, stats, areaHa, calls, errors>>

ExcludeStep ==
  /\ AtStage("exclude")
  /\ masked' = [masked EXCEPT ![Cur] = Exclude(script, filtered[Cur], swater)]
  /\ Advance("exclude")
  /\ UNCHANGED <<norm, filtered, final,
                 connections, polygons, stats, areaHa, calls, errors>>

\* Mutant of SelfMaskInput: the thresholded image is self-masked, so the
\* water exclusion never reaches the component filter.
SelfMaskInput_Thresholded(s, i) == filtered[i]

\* The vegetation script self-masks the thresholded image itself.
SelfMaskInput(s, i) == IF UsesWater(s) THEN masked[i] ELSE filtered[i]

SelfMaskStep ==
  /\ AtStage("selfmask")
  /\ final' = [final EXCEPT ![Cur] = SelfMask(SelfMaskInput(script, Cur))]
  /\ Advance("selfmask")
  /\ UNCHANGED <<norm, filtered, masked,
                 connections, polygons, stats, areaHa, calls, errors>>

ConnectionsStep ==
  /\ AtStage("connections")
  /\ connections' = [connections EXCEPT
                       ![ConnSlot(script, Cur)] =
                          ConnectedPixelCount(final[Cur], EightConnected(Cur))]
  /\ Advance("connections")
  /\ UNCHANGED <<norm, filtered, masked, final,
                 polygons, stats, areaHa, calls, errors>>

SizeFilterStep ==
  /\ AtStage("sizefilter")
  /\ final' = [final EXCEPT
                 ![Cur] = SizeFilter(Cur, final[Cur], connections[ConnSlot(script, Cur)])]
  /\ Advance("sizefilter")
  /\ UNCHANGED <<norm, filtered, masked,
                 connections, polygons, stats, areaHa, calls, errors>>

SlopeStep ==
  /\ AtStage("slope")
  /\ final' = [final EXCEPT ![Cur] = SlopeMask(final[Cur], slope)]
  /\ Advance("slope")
  /\ UNCHANGED <<norm, filtered, masked,
                 connections, polygons, stats, areaHa, calls, errors>>

VectorizeStep ==
  /\ AtStage("vectorize")
  /\ polygons' = [polygons EXCEPT ![Cur] = ReduceToVectors(final[Cur], aoi)]
  /\ calls' = calls \cup {[op |-> "reduceToVectors", index |-> Cur,
                           bestEffort |-> VectorBestEffort(script)]}
  /\ Advance("vectorize")
  /\ UNCHANGED <<norm, filtered, masked, final,
                 connections, stats, areaHa, errors>>

AreaStatsStep ==
  /\ AtStage("areastats")
  /\ stats' = [stats EXCEPT
                 ![Cur] = IF Failed(Cur) THEN NoValue ELSE AreaStats(final[Cur], aoi)]
  /\ calls' = calls \cup {[op |-> "reduceRegion", index |-> Cur,
                           bestEffort |-> AreaBestEffort(script)]}
  /\ Advance("areastats")
  /\ UNCHANGED <<norm, filtered, masked, final,
                 connections, polygons, areaHa, errors>>

HectaresStep ==
  /\ AtStage("hectares")
  /\ IF Failed(Cur)
       THEN areaHa' = areaHa
       ELSE areaHa' = [areaHa EXCEPT ![Cur] = Round(stats[Cur], rounding)]
  /\ Advance("hectares")
  /\ UNCHANGED <<norm, filtered, masked, final,
                 connections, polygons, stats, calls, errors>>

\* The script runs its statements in order, one per step.
Next ==
  \/ NormalizeStep
  \/ ThresholdStep
  \/ ExcludeStep
  \/ SelfMaskStep
  \/ ConnectionsStep
  \/ SizeFilterStep
  \/ SlopeStep
  \/ VectorizeStep
  \/ AreaStatsStep
  \/ HectaresStep

Spec == Init /\ [][Next]_vars

\* ------------------------------------------------------------------ area runs
\* The area statements of a script on a strip of MaxStrip cells: the first
\* n cells are true in the refined mask of the first index, and each further
\* index has StripStep true cells fewer; the area of interest is the strip
\* without its last cell.
MaxStrip == 1001
StripStep == 50

StripLen(n, k) == IF n > StripStep * (k - 1) THEN n - StripStep * (k - 1) ELSE 0

\* Some index of the run has an area halfway between two whole hectares.
\* Only then do the rounding rules differ, so only then are both drawn.
HasTie(s, n) ==
  \E k \in 1 .. Len(IndicesOf(s)) :
    LET inside == IF StripLen(n, k) < MaxStrip THEN StripLen(n, k) ELSE MaxStrip - 1
    IN  2 * ((PixelArea * inside) % HaDivisor) = HaDivisor

StripMask(n) ==
  [ok |-> 1 .. n, val |-> [c \in 1 .. MaxStrip |-> IF c <= n THEN 1 ELSE 0]]

FirstAreaStep(s) ==
  CHOOSE n \in 1 .. Len(Program(s)) :
    /\ Program(s)[n][1] = "areastats"
    /\ \A m \in 1 .. (n - 1) : Program(s)[m][1] # "areastats"

InitArea ==
  \E s \in Scripts, n \in 0 .. MaxStrip, rule \in RoundingRules :
    /\ (rule = "halfEven" => HasTie(s, n))
    /\ script = s
    /\ aoi = 1 .. (MaxStrip - 1)
    /\ swater = NoImage
    /\ slope = NoImage
    /\ index = [i \in IndexSet(s) |-> NoImage]
    /\ norm = [i \in IndexSet(s) |-> NoNorm]
    /\ filtered = [i \in IndexSet(s) |-> NoImage]
    /\ masked = [i \in IndexSet(s) |-> NoImage]
    /\ final = [i \in IndexSet(s) |-> StripMask(StripLen(n, Ordinal(s, i)))]
    /\ connections = [k \in ConnSlots(s) |-> NoImage]
    /\ polygons = [i \in IndexSet(s) |-> {}]
    /\ stats = [i \in IndexSet(s) |-> NoValue]
    /\ areaHa = [i \in IndexSet(s) |-> NoValue]
    /\ calls = {}
    /\ img_count = SomeImages
    /\ rounding = rule
    /\ errors = {}
    /\ reads = [i \in IndexSet(s) |-> {}]
    /\ NoClassification
    /\ NoTraining
    /\ NoSar
    /\ pc = FirstAreaStep(s)

NextArea ==
  \/ AreaStatsStep
  \/ HectaresStep

SpecArea == InitArea /\ [][NextArea]_vars

\* ------------------------------------------------------------------ classification
\* The classified images are the platform's: each classifier returns one of
\* MaxMaps class maps, and each accuracy is a number of correctly classified
\* testing samples out of MaxCorrect.
MaxMaps == 3
MaxCorrect == 2

ClassMap(k) == MkImage(Cells, LAMBDA c : ((Col(c) - 1) * k + (Row(c) - 1)) % Len(classLabels))

\* Mutant of ClassMask: the pixels of the other classes are not masked.
ClassMask_NoUpdateMask(clipped, full, label) == Eq(clipped, label)

\* classMaskedImage = ClassAoi.eq(classLabel).updateMask(RFclassified.eq(classLabel)).
ClassMask(clipped, full, label) == UpdateMask(Eq(clipped, label), Eq(full, label))

\* reduceToVectors with no geometry: one feature per connected group of
\* data cells of equal value, with the value as its label.
ClassVectors(img) ==
  {[cells |-> ComponentOf(img, c, TRUE), label |-> img.val[c]] : c \in img.ok}

\* feature.set('class_name', classNames[index]).
SetClassName(features, n) ==
  {[cells |-> f.cells, label |-> f.label, class_name |-> classNames[n]] : f \in features}

mainVars == <<script, aoi, swater, slope, index, norm, filtered, masked, final,
              connections, polygons, stats, areaHa, calls, img_count, rounding, errors, reads,
              sarVars, trainVars>>

InitClassify ==
  \E partial \in BOOLEAN :
    /\ script = "classify"
    /\ aoi = SceneAoi(partial)
    /\ swater = NoImage
    /\ slope = NoImage
    /\ index = [i \in {} |-> NoImage]
    /\ norm = [i \in {} |-> NoNorm]
    /\ filtered = [i \in {} |-> NoImage]
    /\ masked = [i \in {} |-> NoImage]
    /\ final = [i \in {} |-> NoImage]
    /\ connections = [i \in {} |-> NoImage]
    /\ polygons = [i \in {} |-> {}]
    /\ stats = [i \in {} |-> NoValue]
    /\ areaHa = [i \in {} |-> NoValue]
    /\ calls = {}
    /\ img_count = SomeImages
    /\ rounding = "halfUp"
    /\ errors = {}
    /\ reads = [i \in {} |-> {}]
    /\ NoClassification
    /\ NoTraining
    /\ NoSar
    /\ pc = 1

\* Cartclassified = sentinelWithIndices.select(predictionBands).classify(Cartclassifier).
ClassifyStep ==
  /\ AtStage("classify")
  /\ \E k \in 1 .. MaxMaps : classified' = [classified EXCEPT ![Cur] = ClassMap(k)]
  /\ pc' = pc + 1
  /\ UNCHANGED <<mainVars, accuracy, ClassAoi, classMaskedImage, classPolygons, exportLog>>

\* CAconfusionMatrix.accuracy(), RFconfusionMatrix.accuracy(), SVMconfusionMatrix.accuracy().
AccuracyStep ==
  /\ AtStage("accuracy")
  /\ \E n \in 0 .. MaxCorrect : accuracy' = [accuracy EXCEPT ![Cur] = n]
  /\ pc' = pc + 1
  /\ UNCHANGED <<mainVars, classified, ClassAoi, classMaskedImage, classPolygons, exportLog>>

\* ClassAoi = RFclassified.clip(aoi).
ClipClassStep ==
  /\ AtStage("clipclass")
  /\ ClassAoi' = Clip(classified["RF"], aoi)
  /\ pc' = pc + 1
  /\ UNCHANGED <<mainVars, classified, accuracy, classMaskedImage, classPolygons, exportLog>>

ClassMaskStep ==
  /\ AtStage("classmask")
  /\ classMaskedImage' =
       [classMaskedImage EXCEPT ![Cur] = ClassMask(ClassAoi, classified["RF"], classLabels[Cur])]
  /\ pc' = pc + 1
  /\ UNCHANGED <<mainVars, classified, accuracy, ClassAoi, classPolygons, exportLog>>

\* classPolygons = classMaskedImage.eq(classLabel).reduceToVectors({...}).
ClassVectorsStep ==
  /\ AtStage("classvectors")
  /\ classPolygons' =
       [classPolygons EXCEPT
          ![Cur] = ClassVectors(Eq(classMaskedImage[Cur], classLabels[Cur]))]
  /\ exportLog' = Append(exportLog, [op |-> "reduceToVectors", class |-> classLabels[Cur]])
  /\ pc' = pc + 1
  /\ UNCHANGED <<mainVars, classified, accuracy, ClassAoi, classMaskedImage>>

ClassNameStep ==
  /\ AtStage("classname")
  /\ classPolygons' = [classPolygons EXCEPT ![Cur] = SetClassName(classPolygons[Cur], Cur)]
  /\ pc' = pc + 1
  /\ UNCHANGED <<mainVars, classified, accuracy, ClassAoi, classMaskedImage, exportLog>>

\* Export.table.toDrive({collection: classPolygons, description: ...}).
ClassExportStep ==
  /\ AtStage("classexport")
  /\ exportLog' = Append(exportLog,
                         [op |-> "export", class |-> classLabels[Cur],
                          description |-> <<classNames[Cur], "_ClassPolygon">>,
                          collection |-> classPolygons[Cur]])
  /\ pc' = pc + 1
  /\ UNCHANGED <<mainVars, classified, accuracy, ClassAoi, classMaskedImage, classPolygons>>

NextClassify ==
  \/ ClassifyStep
  \/ AccuracyStep
  \/ ClipClassStep
  \/ ClassMaskStep
  \/ ClassVectorsStep
  \/ ClassNameStep
  \/ ClassExportStep

SpecClassify == InitClassify /\ [][NextClassify]_vars

\* ------------------------------------------------------------------ flood head
\* The values of the radar composites and of the indices computed from them
\* are fractions <<numerator, denominator>> with a positive denominator.
FLt(x, y) == x[1] * y[2] < y[1] * x[2]
FLe(x, y) == x[1] * y[2] <= y[1] * x[2]
FEq(x, y) == x[1] * y[2] = y[1] * x[2]
FAbs(x) == <<Abs(x[1]), x[2]>>
FMean(x, y) == <<x[1] * y[2] + y[1] * x[2], 2 * x[2] * y[2]>>

\* focalMedian({radius: 15, kernelType: 'square', units: 'meters'}) at scale
\* 10: the kernel reaches FocalRadius \div Scale cells in each direction.
FocalRadius == 15
Window(c) ==
  {d \in Cells : /\ Abs(Row(c) - Row(d)) <= FocalRadius \div Scale
                 /\ Abs(Col(c) - Col(d)) <= FocalRadius \div Scale}

\* The k-th smallest of the values of img at the cells S.
Kth(img, S, k) ==
  CHOOSE v \in {img.val[d] : d \in S} :
    /\ Cardinality({d \in S : FLt(img.val[d], v)}) < k
    /\ Cardinality({d \in S : FLe(img.val[d], v)}) >= k

\* The median: the middle value, or the mean of the two middle values.
MedianOf(img, S) ==
  LET n == Cardinality(S)
  IN  IF n % 2 = 1 THEN Kth(img, S, (n + 1) \div 2)
      ELSE FMean(Kth(img, S, n \div 2), Kth(img, S, (n \div 2) + 1))

\* A cell of the result carries data when some cell of its window does.
FocalMedian(img) ==
  MkImage({c \in Cells : Window(c) \cap img.ok # {}},
          LAMBDA c : MedianOf(img, Window(c) \cap img.ok))

\* ri = after.abs().divide(before.abs());
\* ndfi = before.abs().subtract(after.abs()).divide(before.abs().add(after.abs()));
\* dii = after.abs().subtract(before.abs()).
RawIndex(i, after, before) ==
  MkImage(after.ok \cap before.ok,
          LAMBDA c : LET a == FAbs(after.val[c])
                         b == FAbs(before.val[c])
                     IN  CASE i = "RI"   -> <<a[1] * b[2], a[2] * b[1]>>
                           [] i = "NDFI" -> <<b[1] * a[2] - a[1] * b[2],
                                              b[1] * a[2] + a[1] * b[2]>>
                           [] i = "DII"  -> <<a[1] * b[2] - b[1] * a[2], a[2] * b[2]>>)

\* A composite of backscatter values: lo decibels on a snake blob, hi
\* elsewhere, clipped to the area of interest.
SarComposite(geom, a, len, lo, hi) ==
  Clip(MkImage(Cells, LAMBDA c : IF c \in Blob(a, len) THEN <<lo, 1>> ELSE <<hi, 1>>), geom)

InitSpeckle ==
  \E partial \in BOOLEAN, a \in 1 .. MaxStart :
    \E lenb \in 0 .. (W * H - a + 1), lena \in 0 .. (W * H - a + 1) :
      /\ script = "sar"
      /\ aoi = SceneAoi(partial)
      /\ mean_before = SarComposite(SceneAoi(partial), a, lenb, -2, -4)
      /\ min_after = SarComposite(SceneAoi(partial), a, lena, -1, -3)
      /\ before_filtered = NoImage
      /\ after_filtered = NoImage
      /\ raw = [i \in IndexSet("flood") |-> NoImage]
      /\ index = [i \in IndexSet("flood") |-> NoImage]
      /\ swater = NoImage
      /\ slope = NoImage
      /\ norm = [i \in {} |-> NoNorm]
      /\ filtered = [i \in {} |-> NoImage]
      /\ masked = [i \in {} |-> NoImage]
      /\ final = [i \in {} |-> NoImage]
      /\ connections = [i \in {} |-> NoImage]
      /\ polygons = [i \in {} |-> {}]
      /\ stats = [i \in {} |-> NoValue]
      /\ areaHa = [i \in {} |-> NoValue]
      /\ calls = {}
      /\ img_count = SomeImages
      /\ rounding = "halfUp"
      /\ errors = {}
      /\ reads = [i \in {} |-> {}]
      /\ NoClassification
      /\ NoTraining
      /\ pc = 1

\* The variables the head of the flood script leaves alone.
sarFrame == <<script, aoi, swater, slope, norm, filtered, masked, final, connections,
              polygons, stats, areaHa, calls, img_count, rounding, errors, reads, classVars,
              trainVars, mean_before, min_after>>

\* before_filtered = mean_before.focalMedian(...).
SmoothBeforeStep ==
  /\ AtStage("smoothbefore")
  /\ before_filtered' = FocalMedian(mean_before)
  /\ pc' = pc + 1
  /\ UNCHANGED <<sarFrame, after_filtered, raw, index>>

\* after_filtered = min_after.focalMedian(...).
SmoothAfterStep ==
  /\ AtStage("smoothafter")
  /\ after_filtered' = FocalMedian(min_after)
  /\ pc' = pc + 1
  /\ UNCHANGED <<sarFrame, before_filtered, raw, index>>

\* ri = min_after.abs().divide(mean_before.abs()).
RawIndexStep ==
  /\ AtStage("rawindex")
  /\ raw' = [raw EXCEPT ![Cur] = RawIndex(Cur, min_after, mean_before)]
  /\ pc' = pc + 1
  /\ UNCHANGED <<sarFrame, before_filtered, after_filtered, index>>

\* ri_filtered = ri.focalMedian(15, 'square', 'meters').
SmoothIndexStep ==
  /\ AtStage("smoothindex")
  /\ index' = [index EXCEPT ![Cur] = FocalMedian(raw[Cur])]
  /\ pc' = pc + 1
  /\ UNCHANGED <<sarFrame, before_filtered, after_filtered, raw>>

NextSpeckle ==
  \/ SmoothBeforeStep
  \/ SmoothAfterStep
  \/ RawIndexStep
  \/ SmoothIndexStep

SpecSpeckle == InitSpeckle /\ [][NextSpeckle]_vars

\* ------------------------------------------------------------------ training
\* The sampled features are 1 .. n for some n up to MaxSamples; randomColumn
\* gives each a value of [0, 1), drawn here from the tenths 0.0 .. 0.9.
MaxSamples == 3
RandomTenths == 0 .. 9
SplitTenths == 7

\* Mutant of InTesting: only a value above 0.7 goes to the testing set.
InTesting_Above(r) == r > SplitTenths

\* ee.Filter.lessThan('random', 0.7) and
\* ee.Filter.greaterThanOrEquals('random', 0.7).
InTraining(r) == r < SplitTenths
InTesting(r) == r >= SplitTenths

\* The features each classifier is trained with.
Features(k) ==
  IF k \in {DisplayClassifiers[n] : n \in 1 .. Len(DisplayClassifiers)}
    THEN classifierTraining
    ELSE trainingSet

InitTrain ==
  \E n \in 0 .. MaxSamples :
    /\ script = "train"
    /\ classifierTraining = 1 .. n
    /\ random = [x \in {} |-> 0]
    /\ trainingSet = {}
    /\ testingSet = {}
    /\ trainedOn = [k \in {} |-> {}]
    /\ testedOn = [k \in {} |-> {}]
    /\ clipSource = {}
    /\ aoi = Cells
    /\ swater = NoImage
    /\ slope = NoImage
    /\ index = [i \in {} |-> NoImage]
    /\ norm = [i \in {} |-> NoNorm]
    /\ filtered = [i \in {} |-> NoImage]
    /\ masked = [i \in {} |-> NoImage]
    /\ final = [i \in {} |-> NoImage]
    /\ connections = [i \in {} |-> NoImage]
    /\ polygons = [i \in {} |-> {}]
    /\ stats = [i \in {} |-> NoValue]
    /\ areaHa = [i \in {} |-> NoValue]
    /\ calls = {}
    /\ img_count = SomeImages
    /\ rounding = "halfUp"
    /\ errors = {}
    /\ reads = [i \in {} |-> {}]
    /\ NoClassification
    /\ NoSar
    /\ pc = 1

\* The variables the training statements leave alone.
trainFrame == <<script, aoi, swater, slope, index, norm, filtered, masked, final,
                connections, polygons, stats, areaHa, calls, img_count, rounding, errors,
                reads, classVars, sarVars, classifierTraining>>

\* RFclassifier = ee.Classifier.smileRandomForest(50).train({features:
\* classifierTraining, ...}); RFAclassifier = ....train({features: trainingSet, ...}).
TrainStep ==
  /\ AtStage("train")
  /\ trainedOn' = [k \in DOMAIN trainedOn \cup {Cur} |->
                     IF k = Cur THEN Features(Cur) ELSE trainedOn[k]]
  /\ pc' = pc + 1
  /\ UNCHANGED <<trainFrame, random, trainingSet, testingSet, testedOn, clipSource>>

\* trainingTesting = classifierTraining.randomColumn(); trainingSet and
\* testingSet are its two filters.
SplitStep ==
  /\ AtStage("split")
  /\ \E r \in [classifierTraining -> RandomTenths] :
       /\ random' = r
       /\ trainingSet' = {x \in classifierTraining : InTraining(r[x])}
       /\ testingSet' = {x \in classifierTraining : InTesting(r[x])}
  /\ pc' = pc + 1
  /\ UNCHANGED <<trainFrame, trainedOn, testedOn, clipSource>>

\* RFconfusionMatrix = testingSet.classify(RFAclassifier).errorMatrix(...).
ErrorMatrixStep ==
  /\ AtStage("errormatrix")
  /\ testedOn' = [k \in DOMAIN testedOn \cup {Cur} |->
                    IF k = Cur THEN testingSet ELSE testedOn[k]]
  /\ pc' = pc + 1
  /\ UNCHANGED <<trainFrame, random, trainingSet, testingSet, trainedOn, clipSource>>

\* ClassAoi = RFclassified.clip(aoi), RFclassified being the image of
\* RFclassifier.
ClipSourceStep ==
  /\ AtStage("clipsource")
  /\ clipSource' = clipSource \cup {Cur}
  /\ pc' = pc + 1
  /\ UNCHANGED <<trainFrame, random, trainingSet, testingSet, trainedOn, testedOn>>

NextTrain ==
  \/ TrainStep
  \/ SplitStep
  \/ ErrorMatrixStep
  \/ ClipSourceStep

SpecTrain == InitTrain /\ [][NextTrain]_vars

\* ------------------------------------------------------------------ claims
\* Statement st of index i has run / was the last statement to run.
StepDone(st, i) == \E n \in 1 .. (pc - 1) : Program(script)[n] = <<st, i>>
JustDone(st, i) == pc > 1 /\ Program(script)[pc - 1] = <<st, i>>

\* The mask of the cells whose normalized value is above mean + k*std
\* (dir "gt") or below mean - k*std (dir "lt"), k = kn/kd, with mean and std
\* of the normalized raster over the area of interest.
ExpectedMask(nrm, geom, dir, kn, kd) ==
  LET mo == Moments(nrm, geom)
  IN  {c \in nrm.ok :
         IF dir = "gt"
           THEN CmpToThreshold(nrm.val[c], mo, 1, kn, kd) = 1
           ELSE CmpToThreshold(nrm.val[c], mo, -1, kn, kd) = -1}

\* C1: for every thresholded index the sign of the threshold formula and the
\* comparison agree: with threshold mean + k*std the mask is the cells above
\* the threshold, with mean - k*std it is the cells below it.
C1_SignAgreesWithComparison ==
  \A i \in IndexSet(script) :
    StepDone("threshold", i) =>
      TrueCells(filtered[i]) =
        ExpectedMask(norm[i], aoi, IF ThSign(i) = 1 THEN "gt" ELSE "lt",
                     KNum(i), KDen(i))

\* C2: the soil script keeps SR below mean - 0.1*std, DVI above mean + 0.1*std
\* and CMR below mean - 0.1*std.
C2_SoilDirections ==
  script = "soil" =>
    /\ StepDone("threshold", "SR") =>
         TrueCells(filtered["SR"]) = ExpectedMask(norm["SR"], aoi, "lt", 1, 10)
    /\ StepDone("threshold", "DVI") =>
         TrueCells(filtered["DVI"]) = ExpectedMask(norm["DVI"], aoi, "gt", 1, 10)
    /\ StepDone("threshold", "CMR") =>
         TrueCells(filtered["CMR"]) = ExpectedMask(norm["CMR"], aoi, "lt", 1, 10)

\* The index raster of i is not constant over the area of interest.
NonDegenerate(i) ==
  Cardinality({index[i].val[d] : d \in RegionCells(index[i], aoi)}) > 1

\* C3: when the minimum and maximum of an index over the area of interest
\* differ, every data cell of the normalized raster inside the area lies in
\* [0,1], a cell holding the minimum is exactly 0 and a cell holding the
\* maximum is exactly 1.
C3_NormalizedInUnitRange ==
  \A i \in IndexSet(script) :
    (StepDone("normalize", i) /\ NonDegenerate(i)) =>
      LET seen == {index[i].val[d] : d \in RegionCells(index[i], aoi)}
          least == CHOOSE v \in seen : \A w \in seen : v <= w
          most == CHOOSE v \in seen : \A w \in seen : v >= w
      IN  \A c \in RegionCells(norm[i], aoi) :
            /\ 0 <= norm[i].val[c]
            /\ norm[i].val[c] <= norm[i].den
            /\ index[i].val[c] = least => norm[i].val[c] = 0
            /\ index[i].val[c] = most => norm[i].val[c] = norm[i].den

\* A normalized raster with the minimum, the maximum and a value strictly
\* between them inside the area of interest.
C3_Witness ==
  \E i \in IndexSet(script) :
    /\ StepDone("normalize", i)
    /\ NonDegenerate(i)
    /\ \E c \in RegionCells(norm[i], aoi) :
         0 < norm[i].val[c] /\ norm[i].val[c] < norm[i].den
    /\ \E c \in RegionCells(norm[i], aoi) : norm[i].val[c] = 0
    /\ \E c \in RegionCells(norm[i], aoi) : norm[i].val[c] = norm[i].den

\* C4: an index that is constant over the area of interest stops the run at
\* normalization: its thresholding is never reached.
C4_DegenerateStopsRun ==
  \A i \in IndexSet(script) :
    (StepDone("normalize", i) /\ ~NonDegenerate(i)) => ~StepDone("threshold", i)

\* Cell c carries permanent water: seasonality of 10 months or more.
PermanentWater(c) == c \in swater.ok /\ swater.val[c] >= 10

\* Two cells touch by an edge or a corner.
Touch8(a, b) ==
  /\ a # b
  /\ Row(a) - Row(b) \in {-1, 0, 1}
  /\ Col(a) - Col(b) \in {-1, 0, 1}

\* Every cell of T labelled with the smallest cell of its connected piece:
\* each cell takes the smallest label among itself and the cells of T it
\* touches, until nothing changes.
RECURSIVE Relabel(_, _)
Relabel(L, T) ==
  LET L2 == [c \in T |->
               LET near == {L[d] : d \in {e \in T : e = c \/ Touch8(c, e)}}
               IN  CHOOSE m \in near : \A x \in near : m <= x]
  IN  IF L2 = L THEN L ELSE Relabel(L2, T)

Joined(T) == Relabel([c \in T |-> c], T)

\* The number of cells of T in the connected component of c.
PieceSize(J, T, c) == Cardinality({d \in T : J[d] = J[c]})

\* The mask handed to the component filter of index i.
FilterInput(i) == SelfMask(IF UsesWater(script) THEN masked[i] ELSE filtered[i])

C6_ExclusionFrame ==
  \A i \in IndexSet(script) :
    StepDone("exclude", i) =>
      \A c \in Cells :
        /\ PermanentWater(c) => ~IsTrue(masked[i], c)
        /\ (PermanentWater(c) /\ c \in filtered[i].ok)
             => (c \in masked[i].ok /\ masked[i].val[c] = 0)
        /\ ~PermanentWater(c)
             => /\ (c \in masked[i].ok <=> c \in filtered[i].ok)
                /\ masked[i].val[c] = filtered[i].val[c]

\* The exclusion has cleared a true cell with exactly 10 months of water and
\* has left another true cell, with 9 months of water, true.
C6_Witness ==
  \E i \in IndexSet(script) :
    /\ StepDone("exclude", i)
    /\ \E c \in Cells :
         PermanentWater(c) /\ swater.val[c] = 10 /\ IsTrue(filtered[i], c)
    /\ \E c \in Cells :
         c \in swater.ok /\ swater.val[c] = 9 /\ IsTrue(masked[i], c)

\* C7: the exclusion is applied before the small-component filter: a true
\* cell survives the filter only when its connected piece of the mask left
\* by the exclusion has at least the minimum size, and a blob of 12 cells
\* with 3 of them under permanent water is removed entirely under a
\* minimum size of 10, leaving an area sum of 0.
C7_ExclusionBeforeFilter ==
  \A i \in IndexSet(script) :
    (UsesWater(script) /\ StepDone("sizefilter", i)) =>
      LET T == {c \in TrueCells(filtered[i]) : ~PermanentWater(c)}
          B == TrueCells(filtered[i])
      IN  /\ (JustDone("sizefilter", i) \/ Done) =>
               LET J == Joined(T)
               IN  \A c \in TrueCells(final[i]) :
                     c \in T /\ PieceSize(J, T, c) >= MinSize(i)
          /\ ( /\ Cardinality(B) = 12
               /\ Cardinality({c \in B : PermanentWater(c)}) = 3
               /\ MinSize(i) = 10
               /\ LET JB == Joined(B) IN \A c \in B : PieceSize(JB, B, c) = 12 )
             => /\ TrueCells(final[i]) = {}
                /\ StepDone("areastats", i) => stats[i] = 0
                /\ StepDone("hectares", i) => areaHa[i] = 0

\* A finished run in which a connected blob of 12 true cells lost 3 cells to
\* the exclusion and the 9 that were left were removed by the filter.
C7_Witness ==
  \E i \in IndexSet(script) :
    /\ Done
    /\ UsesWater(script)
    /\ MinSize(i) = 10
    /\ LET B == TrueCells(filtered[i])
       IN  /\ Cardinality(B) = 12
           /\ Cardinality({c \in B : PermanentWater(c)}) = 3
           /\ Cardinality(TrueCells(masked[i])) = 9
           /\ LET JB == Joined(B) IN \A c \in B : PieceSize(JB, B, c) = 12
    /\ TrueCells(final[i]) = {}
    /\ areaHa[i] = 0

C8_VegKeepsWater ==
  \E i \in IndexSet(script) :
    script = "veg" /\ Done /\ \E c \in TrueCells(final[i]) : PermanentWater(c)

C9_TwelveCells ==
  \E i \in IndexSet(script) :
    Done /\ Cardinality(TrueCells(final[i]) \cap aoi) = 12 /\ areaHa[i] = 0

NoData(i) == aoi \ index[i].ok

\* C11: a cell without data in the index raster is never true in the
\* thresholded mask, in the mask after the water exclusion or in the final
\* mask, whichever the comparison; the water exclusion gives data to no
\* such cell; the component sizes count data cells only and the area sum is
\* the area of the true data cells.
C11_NoDataNeverCounted ==
  \A i \in IndexSet(script) :
    /\ \A c \in Cells \ index[i].ok :
         /\ ~IsTrue(filtered[i], c)
         /\ ~IsTrue(masked[i], c)
         /\ ~IsTrue(final[i], c)
         /\ c \notin masked[i].ok
    /\ JustDone("connections", i) =>
         LET slot == connections[ConnSlot(script, i)]
             T == TrueCells(final[i]) \cap index[i].ok
             J == Joined(T)
         IN  /\ slot.ok \subseteq index[i].ok
             /\ \A c \in slot.ok : slot.val[c] = PieceSize(J, T, c)
    /\ (StepDone("areastats", i) /\ ~Failed(i)) =>
         stats[i] = PixelArea * Cardinality((TrueCells(final[i]) \cap index[i].ok) \cap aoi)

\* A finished run with an index compared by "lt" and one compared by "gt",
\* each with a no-data cell inside the area of interest next to a cell that
\* passed the threshold; the no-data cell of the first lies under permanent
\* water and touches a cell of the final mask.
C11_Witness ==
  /\ Done
  /\ \E i \in IndexSet(script) :
       /\ CmpOp(i) = "lt"
       /\ \E c \in NoData(i) :
            /\ PermanentWater(c)
            /\ \E d \in TrueCells(final[i]) : Touch8(c, d)
       /\ stats[i] > 0
  /\ \E j \in IndexSet(script) :
       /\ CmpOp(j) = "gt"
       /\ \E c \in NoData(j) : \E d \in TrueCells(filtered[j]) : Touch8(c, d)

\* A finished run with imagery whose final masks are all empty reports no
\* error and an area of 0 for every index.
EmptyMaskIsZeroArea ==
  (Done /\ img_count > 0 /\ \A i \in IndexSet(script) : TrueCells(final[i]) = {})
    => (errors = {} /\ \A i \in IndexSet(script) : areaHa[i] = 0)

\* C12: a run whose filtered collection is empty ends in an EmptyInputError,
\* while a run with imagery and an empty final mask ends without error and
\* reports an area of 0.
C12_EmptyInputError ==
  /\ (Done /\ img_count = 0) => \E e \in errors : e.name = "EmptyInputError"
  /\ EmptyMaskIsZeroArea

\* A finished run on an empty collection: every statement has run, every
\* index is in error and no area has a value.
C12_EmptyRunEnds ==
  /\ Done
  /\ img_count = 0
  /\ \A i \in IndexSet(script) : Failed(i) /\ areaHa[i] = NoValue

\* C13: the classified image that is clipped, vectorized and exported is
\* the image of a classifier whose accuracy on the testing set is the
\* highest of the three, whatever the three accuracies are.
C13_BestClassifierExported ==
  StepDone("clipclass", "RF") =>
    \E b \in ClassifierSet :
      /\ \A k \in ClassifierSet : accuracy[b] >= accuracy[k]
      /\ ClassAoi = Clip(classified[b], aoi)

\* The features of pass n cover exactly the cells T.
Covers(features, T) == UNION {f.cells : f \in features} = T

\* The number of entries of the log with operation op for class label c.
Logged(op, c) ==
  Cardinality({n \in 1 .. Len(exportLog) : exportLog[n].op = op /\ exportLog[n].class = c})

\* The class name of each label.
NameOfLabel(c) ==
  CASE c = 0 -> "dense vegetation"
    [] c = 1 -> "water"
    [] c = 2 -> "developed"
    [] c = 3 -> "grass"

\* C14: for each class label of {0,1,2,3} one vectorization pass and one
\* export are made; the polygons of the pass cover exactly the cells of the
\* area of interest classified with that label, and each of them carries
\* the class name of the label.
C14_OnePassPerClass ==
  /\ \A n \in 1 .. Len(classLabels) :
       StepDone("classexport", n) =>
         LET c == classLabels[n]
         IN  /\ Logged("reduceToVectors", c) = 1
             /\ Logged("export", c) = 1
             /\ Covers(classPolygons[n], {d \in ClassAoi.ok : ClassAoi.val[d] = c})
             /\ ClassAoi.ok = Cells \cap aoi
             /\ \A f \in classPolygons[n] : f.class_name = NameOfLabel(c)
             /\ \E m \in 1 .. Len(exportLog) :
                  /\ exportLog[m].op = "export"
                  /\ exportLog[m].class = c
                  /\ exportLog[m].collection = classPolygons[n]
  /\ (script = "classify" /\ Done) =>
       /\ {classLabels[n] : n \in 1 .. Len(classLabels)} = 0 .. 3
       /\ Len(exportLog) = 2 * Len(classLabels)

\* A finished classification in which every class has a polygon and some
\* class has more than one.
C14_Witness ==
  /\ script = "classify"
  /\ Done
  /\ \A n \in 1 .. Len(classLabels) : classPolygons[n] # {}
  /\ \E n \in 1 .. Len(classLabels) : Cardinality(classPolygons[n]) > 1

\* C15: in the vegetation script a connected component of dense-vegetation
\* cells survives the noise filter exactly when it has more than 5 cells.
C15_VegKeepsMoreThanFive ==
  script = "veg" =>
    \A i \in IndexSet(script) :
      JustDone("sizefilter", i) =>
        LET T == TrueCells(FilterInput(i))
            J == Joined(T)
        IN  \A c \in T : IsTrue(final[i], c) <=> PieceSize(J, T, c) > 5

C16_TenKept ==
  /\ script # "flood"
  /\ \E i \in IndexSet(script) :
       /\ JustDone("sizefilter", i)
       /\ LET T == TrueCells(FilterInput(i))
              J == Joined(T)
          IN  \E c \in T : PieceSize(J, T, c) = 10 /\ IsTrue(final[i], c)

\* Two cells touch by an edge.
Touch4(a, b) == Touch8(a, b) /\ (Row(a) = Row(b) \/ Col(a) = Col(b))

\* Every cell of T labelled with the smallest cell of its piece when only
\* edges connect.
RECURSIVE Relabel4(_, _)
Relabel4(L, T) ==
  LET L2 == [c \in T |->
               LET near == {L[d] : d \in {e \in T : e = c \/ Touch4(c, e)}}
               IN  CHOOSE m \in near : \A x \in near : m <= x]
  IN  IF L2 = L THEN L ELSE Relabel4(L2, T)

Joined4(T) == Relabel4([c \in T |-> c], T)

\* The connectedPixelCount image of index i counts the pieces given by J.
CountsPieces(i, J, T) ==
  LET slot == connections[ConnSlot(script, i)]
  IN  \A c \in T : slot.val[c] = PieceSize(J, T, c)

\* C17 as stated: the flood script counts components under 4-connectivity,
\* the other scripts under 8-connectivity.
C17_FloodFourConnected ==
  \A i \in IndexSet(script) :
    JustDone("connections", i) =>
      LET T == TrueCells(final[i])
      IN  IF script = "flood" THEN CountsPieces(i, Joined4(T), T)
                              ELSE CountsPieces(i, Joined(T), T)

\* C17 amended: every script, the flood script included, counts components
\* under 8-connectivity: two true cells that touch by a corner only are in
\* the same component of the filter.
C17_AllEightConnected ==
  \A i \in IndexSet(script) :
    /\ JustDone("connections", i) =>
         LET T == TrueCells(final[i])
         IN  /\ CountsPieces(i, Joined(T), T)
             /\ \A c \in T, d \in T :
                  Touch8(c, d) =>
                    connections[ConnSlot(script, i)].val[c]
                      = connections[ConnSlot(script, i)].val[d]
    /\ JustDone("sizefilter", i) =>
         LET T == TrueCells(FilterInput(i))
             J == Joined(T)
         IN  TrueCells(final[i]) = {c \in T : PieceSize(J, T, c) >= MinSize(i)}

\* The filter of a flood index has just kept a cell whose piece has fewer
\* than 5 cells when only edges connect.
C17_Witness ==
  /\ script = "flood"
  /\ \E i \in IndexSet(script) :
       /\ JustDone("sizefilter", i)
       /\ LET T == TrueCells(FilterInput(i))
              J4 == Joined4(T)
          IN  \E c \in TrueCells(final[i]) : PieceSize(J4, T, c) < 5

\* C18: each of RI, NDFI and DII is computed from the smoothed composites
\* before_filtered and after_filtered.
C18_IndexFromSmoothed ==
  \A i \in DOMAIN raw :
    StepDone("rawindex", i) =>
      LET claimed == RawIndex(i, after_filtered, before_filtered)
      IN  \A c \in raw[i].ok : FEq(raw[i].val[c], claimed.val[c])

\* The stage of the data flow a statement belongs to: 1 normalize,
\* 2 threshold, 3 mask refine, 4 vectorize, 5 area summary.
StageRank(st) ==
  CASE st = "normalize" -> 1
    [] st = "threshold" -> 2
    [] st \in {"exclude", "selfmask", "connections", "sizefilter", "slope"} -> 3
    [] st = "vectorize" -> 4
    [] st \in {"areastats", "hectares"} -> 5

\* The statement that first binds each per-index value.
Writer(x) ==
  CASE x = "norm"        -> "normalize"
    [] x = "filtered"    -> "threshold"
    [] x = "masked"      -> "exclude"
    [] x = "final"       -> "selfmask"
    [] x = "connections" -> "connections"
    [] x = "polygons"    -> "vectorize"
    [] x = "stats"       -> "areastats"

\* The raster index and the read-only inputs shared by the pipelines.
SourceValues == {"index", "aoi", "swater", "slope"}

\* C19 as stated: the area summary is computed from the output of the
\* vectorize stage.
C19_AreaFromVectorize ==
  \A i \in DOMAIN reads :
    StepDone("areastats", i) => <<"areastats", "polygons">> \in reads[i]

\* C19: for every index the statements run in the order normalize,
\* threshold, mask refine, vectorize, area summary; each statement reads
\* only the raster index, the shared inputs and values bound by earlier
\* statements of the same index in the same or an earlier stage; the
\* vectorize stage and the area summary both read the refined mask, and the
\* area summary does not read the polygons.
C19_OneWayStages ==
  \A i \in DOMAIN reads :
    /\ \A n \in 1 .. (pc - 2) :
         (Program(script)[n][2] = i /\ Program(script)[pc - 1][2] = i) =>
           StageRank(Program(script)[n][1]) <= StageRank(Program(script)[pc - 1][1])
    /\ \A r \in reads[i] :
         \/ r[2] \in SourceValues
         \/ /\ StageRank(Writer(r[2])) <= StageRank(r[1])
            /\ StepDone(Writer(r[2]), i)
    /\ StepDone("vectorize", i) => <<"vectorize", "final">> \in reads[i]
    /\ StepDone("areastats", i) =>
         /\ <<"areastats", "final">> \in reads[i]
         /\ <<"areastats", "polygons">> \notin reads[i]
         /\ Failed(i) \/ stats[i] = AreaStats(final[i], aoi)

\* A run has ended with polygons and a positive area sum for every index.
C19_Witness ==
  /\ Done
  /\ \A i \in DOMAIN reads : polygons[i] # {} /\ stats[i] > 0

\* The refined mask of index i as a function of its own raster and of the
\* shared read-only inputs alone.
RefinedMask(s, i, raster, geom, sw, slp) ==
  LET nrm == IF RegionCells(raster, geom) = {} THEN NoNorm ELSE Normalize(raster, geom)
      thr == Threshold(i, nrm, geom)
      own == SelfMask(IF UsesWater(s) THEN Exclude(s, thr, sw) ELSE thr)
      kept == SizeFilter(i, own, ConnectedPixelCount(own, EightConnected(i)))
  IN  IF UsesSlope(s) THEN SlopeMask(kept, slp) ELSE kept

Thresholded(i, dir, kn, kd) ==
  JustDone("threshold", i) =>
    TrueCells(filtered[i]) = ExpectedMask(norm[i], aoi, dir, kn, kd)

\* The data cells of the normalized raster of i inside the area of interest
\* that lie strictly on the side dir of the mean and are not in the mask.
BetweenMeanAndThreshold(i, dir) ==
  (ExpectedMask(norm[i], aoi, dir, 0, 1) \cap aoi) \ TrueCells(filtered[i])

\* C21: the flood script keeps RI above mean + 0.25*std, NDFI below
\* mean - 1.0*std and DII above mean + 0.8*std, mean and std being those of
\* the normalized raster over the area of interest.
C21_FloodThresholds ==
  script = "flood" =>
    /\ Thresholded("RI", "gt", 1, 4)
    /\ Thresholded("NDFI", "lt", 1, 1)
    /\ Thresholded("DII", "gt", 4, 5)

\* A flood run has thresholded its three indices; the DII mask is neither
\* empty nor full and leaves out a cell that lies above the mean.
C21_Witness ==
  /\ script = "flood"
  /\ StepDone("threshold", "DII")
  /\ TrueCells(filtered["DII"]) # {}
  /\ TrueCells(filtered["RI"]) # {}
  /\ TrueCells(filtered["NDFI"]) # {}
  /\ BetweenMeanAndThreshold("DII", "gt") # {}

\* C22: the vegetation script keeps each of NDVI, GNDVI, EVI and SAVI above
\* mean + 0.25*std; the moisture script keeps SWI below mean - 0.1*std and
\* NDMI and MNDWI above mean + 0.1*std.
C22_VegMoistureThresholds ==
  /\ script = "veg" =>
       \A i \in IndexSet("veg") : Thresholded(i, "gt", 1, 4)
  /\ script = "moisture" =>
       /\ Thresholded("SWI", "lt", 1, 10)
       /\ Thresholded("NDMI", "gt", 1, 10)
       /\ Thresholded("MNDWI", "gt", 1, 10)

\* A moisture run has thresholded its three indices with non-empty masks,
\* and the SWI mask differs from the cells above its threshold.
C22_Witness ==
  /\ script = "moisture"
  /\ StepDone("threshold", "MNDWI")
  /\ \A i \in IndexSet("moisture") : TrueCells(filtered[i]) # {}
  /\ TrueCells(filtered["SWI"]) # ExpectedMask(norm["SWI"], aoi, "gt", 1, 10)

\* A vegetation run has thresholded its four indices with non-empty masks,
\* and the NDVI mask leaves out a cell that lies above the mean.
C22_VegThresholded ==
  /\ script = "veg"
  /\ StepDone("threshold", "SAVI")
  /\ \A i \in IndexSet("veg") : TrueCells(filtered[i]) # {}
  /\ BetweenMeanAndThreshold("NDVI", "gt") # {}

\* Rasterizing polygons at the scale of the grid: the cells they cover.
Rasterize(polys) == UNION polys

C23_SoilVectorized ==
  /\ script = "soil"
  /\ StepDone("vectorize", "SR")
  /\ Cardinality(polygons["SR"]) >= 1
  /\ [op |-> "reduceToVectors", index |-> "SR", bestEffort |-> TRUE] \in calls

\* C24: the area summary is monotonic and non-negative: when the true
\* cells of the final mask of one index are among those of another, its
\* square metres and its hectares are not larger, and no area is negative.
C24_AreaMonotone ==
  Done =>
    \A i \in DOMAIN stats :
      /\ stats[i] >= 0
      /\ areaHa[i] >= 0
      /\ \A j \in DOMAIN stats :
           TrueCells(final[i]) \subseteq TrueCells(final[j]) =>
             (stats[i] <= stats[j] /\ areaHa[i] <= areaHa[j])

\* An area run has ended in which the mask of one index lies strictly inside
\* the mask of another, the smaller area is halfway between two hectares
\* and is rounded to the even one, and the larger area is larger.
C24_Witness ==
  /\ Done
  /\ rounding = "halfEven"
  /\ \E i, j \in DOMAIN stats :
       /\ TrueCells(final[i]) # {}
       /\ TrueCells(final[i]) \subseteq TrueCells(final[j])
       /\ TrueCells(final[i]) # TrueCells(final[j])
       /\ 2 * (stats[i] % HaDivisor) = HaDivisor
       /\ areaHa[i] % 2 = 0
       /\ areaHa[i] < areaHa[j]

\* Two indices are thresholded with the same coefficient and direction.
SameRule(i, j) ==
  /\ ThSign(i) = ThSign(j)
  /\ CmpOp(i) = CmpOp(j)
  /\ KNum(i) * KDen(j) = KNum(j) * KDen(i)

ComponentsLargeEnough(i) ==
  LET T == TrueCells(final[i])
      J == Joined(T)
  IN  \A c \in T : PieceSize(J, T, c) >= MinSize(i)

\* C26: in the final mask that is vectorized and summed for area, every
\* true cell belongs to a component of at least 5 (flood) or 10 (other
\* scripts) true cells of that mask; the flood slope mask leaves no smaller
\* component.
C26_FinalComponentsLargeEnough ==
  \A i \in DOMAIN reads : StepDone("vectorize", i) => ComponentsLargeEnough(i)

\* C27: the polygons and the hectares of an index come from the same final
\* refined mask: the area summed is the area of the cells the polygons
\* cover, and the hectares are that area rounded.
C27_PolygonsAndAreaAgree ==
  \A i \in DOMAIN reads :
    LET covered == PixelArea * Cardinality(Rasterize(polygons[i]))
    IN  /\ (StepDone("areastats", i) /\ ~Failed(i)) => stats[i] = covered
        /\ (StepDone("hectares", i) /\ ~Failed(i)) => areaHa[i] \in RoundedHa(covered)

\* A flood run has ended; the slope mask has cut the RI mask after the
\* component filter, and RI has polygons and a positive area.
C27_Witness ==
  /\ script = "flood"
  /\ Done
  /\ ~ComponentsLargeEnough("RI")
  /\ polygons["RI"] # {}
  /\ stats["RI"] > 0

\* C28: the classifier whose classified image is clipped, vectorized and
\* exported is one whose confusion matrix is printed, and it was trained on
\* the training set only: none of its features is a testing sample.
C28_ExportedIsEvaluated ==
  \A k \in clipSource :
    /\ k \in DOMAIN testedOn
    /\ trainedOn[k] \subseteq trainingSet
    /\ trainedOn[k] \cap testingSet = {}

\* C29: the training and the testing set partition the sampled features:
\* a sample with random < 0.7 is in the training set only, a sample with
\* random >= 0.7, exactly 0.7 included, is in the testing set only.
C29_SplitIsPartition ==
  StepDone("split", "classifierTraining") =>
    /\ trainingSet \cup testingSet = classifierTraining
    /\ trainingSet \cap testingSet = {}
    /\ \A x \in classifierTraining :
         /\ random[x] < 7 => (x \in trainingSet /\ x \notin testingSet)
         /\ random[x] >= 7 => (x \in testingSet /\ x \notin trainingSet)

\* The split has put a sample below 0.7 in the training set and samples at
\* exactly 0.7 and above 0.7 in the testing set.
C29_Witness ==
  /\ StepDone("split", "classifierTraining")
  /\ \E x, y, z \in classifierTraining :
       /\ random[x] < 7 /\ x \in trainingSet
       /\ random[y] = 7 /\ y \in testingSet
       /\ random[z] > 7 /\ z \in testingSet

\* C30: in every class pass the raster handed to reduceToVectors has the
\* value 1 on every cell of the class, so every polygon of the four passes
\* carries the raster label 1, and the second .eq(classLabel) changes the
\* value of no cell of the class mask.
C30_SecondEqKeepsOnes ==
  \A n \in 1 .. Len(classLabels) :
    StepDone("classvectors", n) =>
      LET handed == Eq(classMaskedImage[n], classLabels[n])
      IN  /\ \A c \in handed.ok : handed.val[c] = 1
          /\ \A f \in classPolygons[n] : f.label = 1
          /\ \A c \in handed.ok : handed.val[c] = classMaskedImage[n].val[c]

====
